---- MODULE Spec2Model ----
(***************************************************************************)
(* Model of the wgpu Backend of iced (src/wgpu/src/backend.rs): the frame  *)
(* compositor that prepares and renders an ordered sequence of layers      *)
(* through the quad, triangle (mesh), image, text and custom pipelines,    *)
(* finishing the staging belt between the two phases.                      *)
(*                                                                         *)
(* One call of Backend::present is the sequence of steps                   *)
(*   PresentStart ; Prepare ; Finish ; Render ; EndFrame ; Return          *)
(* each of which is one statement of present (a whole call of prepare,     *)
(* staging_belt.finish, render, and the end_frame block).  The program is  *)
(* single threaded (&mut self), so Recall only happens between presents.   *)
(*                                                                         *)
(* `log` records, in call order, every call the Backend makes on its       *)
(* collaborators during the current present call.                          *)
(*                                                                         *)
(* Lengths are f32 in the source.  They are modelled in fixed point, in    *)
(* quarter pixels, so that scaling and snapping to whole physical pixels   *)
(* is real arithmetic: Rect(1, 4) is 0.25 x 1.0 pixels.  The x and y of a  *)
(* Rectangle play no part in the Backend and are left out.  The model is   *)
(* of the build with the image feature.                                    *)
(***************************************************************************)
EXTENDS Integers, Sequences, FiniteSets, TLC

VARIABLES
    pc,                 \* position inside present: "idle" between calls
    generated,          \* what Layer::generate returned to present
    overlay_text,       \* present's argument
    layers,             \* present's local `layers`
    clear_color,        \* present's argument
    scale_factor,       \* target.viewport.scale_factor()
    staging_belt,       \* Backend.staging_belt
    pipeline_storage,   \* Backend.pipeline_storage
    prepare_layer,      \* the layer counter inside each built-in pipeline
    last_call,          \* the last method called on the Backend
    log                 \* calls made so far by the current present call

vars == <<pc, generated, overlay_text, layers, clear_color, scale_factor,
          staging_belt, pipeline_storage, prepare_layer, last_call, log>>

----------------------------------------------------------------------------
(* Bounds of the model *)

MaxLayers == 3
MaxPrimitives == 3
MaxClosed == 1

----------------------------------------------------------------------------
(* Rectangles and the viewport *)

Rect(w, h) == [width |-> w, height |-> h]

NoRect == Rect(0, 0)

\* Rectangle<f32> * f32
Scale(r, s) == Rect(r.width * s, r.height * s)

\* Rectangle<f32>::snap: each field `as u32`, truncating to whole pixels
Snap(r) == Rect(r.width \div 4, r.height \div 4)

\* target.viewport.scale_factor() as f32
ScaleFactors == {2}

\* target.viewport.logical_size(), 2 x 2 pixels
ViewportLogical == Rect(8, 8)

\* cfg(any(feature = "image", feature = "svg"))
ImageFeature == TRUE

----------------------------------------------------------------------------
(* Layers *)

\* 0.25 x 1 (scaled 0.5 x 2: too small) and 0.5 x 1 (scaled 1 x 2)
LayerBounds == {Rect(1, 4), Rect(2, 4)}

BucketSizes == {0, 1}

\* 1 x 0.25 (scaled 2 x 0.5: too small) and 1 x 0.5 (scaled 2 x 1)
CustomViewports == {Rect(4, 1), Rect(4, 2)}

\* layer::Pipeline: one custom primitive of a layer
CustomPrimitives == [viewport : CustomViewports]

CustomSeqs == UNION {[1..n -> CustomPrimitives] : n \in 0..MaxPrimitives}

\* the number of primitives held by a layer
Items(l) == l.quads + l.meshes + l.images + l.text + Len(l.pipelines)

\* what a layer takes of the bound on a frame: an empty layer counts one
Weight(l) == IF Items(l) = 0 THEN 1 ELSE Items(l)

\* Layer<'_>: the buckets of one layer and its bounds
LayersWithin(budget) ==
    {l \in [bounds : LayerBounds, quads : BucketSizes, meshes : BucketSizes,
            images : BucketSizes, text : BucketSizes, pipelines : CustomSeqs] :
        Items(l) <= budget /\ Weight(l) <= budget}

RECURSIVE LayerSeqs(_, _)
\* the layer sequences Layer::generate can return for at most `budget`
\* primitives
LayerSeqs(n, budget) ==
    IF n = 0 THEN {<<>>}
    ELSE {<<>>} \cup
         UNION {{<<l>> \o rest : rest \in LayerSeqs(n - 1, budget - Weight(l))} :
                    l \in LayersWithin(budget)}

\* Layer::overlay: a text layer covering the viewport
Overlay(lines) ==
    [bounds |-> ViewportLogical, quads |-> 0, meshes |-> 0, images |-> 0,
     text |-> Len(lines), pipelines |-> <<>>]

OverlayTexts == {<<>>, <<"fps">>}

\* the inputs of present that make its layers: what Layer::generate returns
\* for the primitives, and the overlay text
Frames ==
    UNION {{[generated |-> g, overlay_text |-> o] :
                g \in LayerSeqs(MaxLayers, MaxPrimitives - Len(o))} :
           o \in OverlayTexts}

None == "None"

ClearColors == {None, "BLACK"}

----------------------------------------------------------------------------
(* Calls recorded in the log.  `layer` is the position of the layer in     *)
(* `layers` the call was made for; it is bookkeeping of the model, not an  *)
(* argument of the call.  The other fields are arguments: `index` the      *)
(* layer index given to render, `belt` whether the call is handed          *)
(* &mut self.staging_belt, `items` the bucket handed over (for a custom    *)
(* primitive: its position in layer.pipelines), `bounds` the rectangle     *)
(* handed over, `load` the LoadOp of a render pass.                        *)

NoIndex == 0 - 1

PrepareCall(kind, i, belt, items, bounds) ==
    [op |-> "prepare", kind |-> kind, layer |-> i, index |-> NoIndex,
     belt |-> belt, items |-> items, bounds |-> bounds, load |-> <<>>]

RenderCall(kind, i, index, items, bounds) ==
    [op |-> "render", kind |-> kind, layer |-> i, index |-> index,
     belt |-> FALSE, items |-> items, bounds |-> bounds, load |-> <<>>]

BeginRenderPass(load) ==
    [op |-> "begin_render_pass", kind |-> "pass", layer |-> 0, index |-> NoIndex,
     belt |-> FALSE, items |-> 0, bounds |-> NoRect, load |-> load]

EndRenderPass ==
    [op |-> "end_render_pass", kind |-> "pass", layer |-> 0, index |-> NoIndex,
     belt |-> FALSE, items |-> 0, bounds |-> NoRect, load |-> <<>>]

FinishCall ==
    [op |-> "finish", kind |-> "belt", layer |-> 0, index |-> NoIndex,
     belt |-> TRUE, items |-> 0, bounds |-> NoRect, load |-> <<>>]

EndFrameCall(kind) ==
    [op |-> "end_frame", kind |-> kind, layer |-> 0, index |-> NoIndex,
     belt |-> FALSE, items |-> 0, bounds |-> NoRect, load |-> <<>>]

----------------------------------------------------------------------------
(* Backend::prepare *)

\* the test `bounds.width < 1 || bounds.height < 1` on a snapped rectangle
TooSmall(bounds) == bounds.width < 1 \/ bounds.height < 1

PrepareQuads(i, layer) ==
    IF layer.quads # 0
    THEN <<PrepareCall("quad", i, TRUE, layer.quads, NoRect)>>
    ELSE <<>>

PrepareMeshes(i, layer) ==
    IF layer.meshes # 0
    THEN <<PrepareCall("mesh", i, TRUE, layer.meshes, NoRect)>>
    ELSE <<>>

PrepareImages(i, layer, feature) ==
    IF feature /\ layer.images # 0
    THEN <<PrepareCall("image", i, TRUE, layer.images, NoRect)>>
    ELSE <<>>

\* the text prepared without the test that the layer holds text
PrepareTextAlways(i, layer) ==
    <<PrepareCall("text", i, FALSE, layer.text, layer.bounds)>>

PrepareText(i, layer) ==
    IF layer.text # 0
    THEN <<PrepareCall("text", i, FALSE, layer.text, layer.bounds)>>
    ELSE <<>>

\* `for pipeline in &layer.pipelines`: prepare of every custom primitive
PreparePipelines(i, layer) ==
    [j \in 1..Len(layer.pipelines) |-> PrepareCall("custom", i, FALSE, j, NoRect)]

\* the body of the loop of prepare without the test of the layer's bounds
PrepareLayerNoCull(i, layer, scale, feature) ==
    PrepareQuads(i, layer) \o PrepareMeshes(i, layer)
    \o PrepareImages(i, layer, feature) \o PrepareText(i, layer)
    \o PreparePipelines(i, layer)

\* the body of `for layer in layers` of prepare
PrepareLayer(i, layer, scale, feature) ==
    IF TooSmall(Snap(Scale(layer.bounds, scale)))
    THEN <<>>
    ELSE PrepareQuads(i, layer) \o PrepareMeshes(i, layer)
         \o PrepareImages(i, layer, feature) \o PrepareText(i, layer)
         \o PreparePipelines(i, layer)

RECURSIVE PrepareLayersReversed(_, _, _, _)
\* prepare visiting the layers from the last to the first
PrepareLayersReversed(i, ls, scale, feature) ==
    IF i > Len(ls) THEN <<>>
    ELSE PrepareLayersReversed(i + 1, ls, scale, feature)
         \o PrepareLayer(i, ls[i], scale, feature)

RECURSIVE PrepareLayers(_, _, _, _)
\* `for layer in layers` of prepare, from position i on
PrepareLayers(i, ls, scale, feature) ==
    IF i > Len(ls) THEN <<>>
    ELSE PrepareLayer(i, ls[i], scale, feature)
         \o PrepareLayers(i + 1, ls, scale, feature)

----------------------------------------------------------------------------
(* The staging belt: chunks being written (active), finished and not yet   *)
(* recalled (closed), and recalled (free).  A frame's uploads fit in one   *)
(* chunk.                                                                  *)

BeltNew == [active |-> 0, closed |-> 0, free |-> 0]

\* a region is carved: from the active chunk, else from a free chunk, else
\* from a newly allocated one
BeltWrite(b) ==
    IF b.active > 0 THEN b
    ELSE IF b.free > 0 THEN [b EXCEPT !.free = @ - 1, !.active = 1]
    ELSE [b EXCEPT !.active = 1]

BeltFinish(b) == [b EXCEPT !.closed = @ + b.active, !.active = 0]

BeltRecall(b) == [b EXCEPT !.free = @ + b.closed, !.closed = 0]

RECURSIVE BeltAfter(_, _)
\* the belt after the calls `calls`, each call that is handed the belt
\* carving from it
BeltAfter(b, calls) ==
    IF calls = <<>> THEN b
    ELSE BeltAfter(IF Head(calls).belt THEN BeltWrite(b) ELSE b, Tail(calls))

\* the storage after the custom primitives' prepare: each stores its pipeline
StorageAfter(storage, calls) ==
    storage \cup {calls[k].kind : k \in {n \in 1..Len(calls) : calls[n].kind = "custom"}}

\* the pipelines the Backend owns
PipelineKinds == {"quad", "text", "mesh", "image"}

\* the layer counters of freshly created pipelines
CountersNew == [kind \in PipelineKinds |-> 0]

\* each prepare call of a pipeline advances its layer counter
CountersAfter(counters, calls) ==
    [kind \in PipelineKinds |->
        counters[kind]
        + Cardinality({k \in 1..Len(calls) : calls[k].kind = kind})]

\* each end_frame call sets the layer counter of its pipeline back to zero
CountersEnded(counters, calls) ==
    [kind \in PipelineKinds |->
        IF \E k \in 1..Len(calls) : calls[k].kind = kind
        THEN 0 ELSE counters[kind]]

----------------------------------------------------------------------------
(* Backend::render.  A render state holds the locals of render: the calls  *)
(* made so far, the four layer counters, and whether `render_pass` holds a *)
(* pass that has not been dropped.                                         *)

\* the LoadOp of the first pass: `match clear_color`
\* the first pass loading whatever the clear color
FirstLoadOpAlwaysLoad(color) == <<"Load">>

FirstLoadOp(color) ==
    IF color # None THEN <<"Clear", color>> ELSE <<"Load">>

\* a reopened pass that clears
ReopenLoadOpClear == <<"Clear", "BLACK">>

\* the LoadOp of the passes begun after the meshes and the custom primitives
ReopenLoadOp == <<"Load">>

\* the locals of render after the first begin_render_pass
RenderStart(color) ==
    [calls |-> <<BeginRenderPass(FirstLoadOp(color))>>,
     quad_layer |-> 0, triangle_layer |-> 0, image_layer |-> 0,
     text_layer |-> 0, render_pass |-> TRUE]

\* `let _ = ManuallyDrop::into_inner(render_pass)`: the pass is dropped
DropPass(rs) ==
    [rs EXCEPT !.calls = Append(@, EndRenderPass), !.render_pass = FALSE]

\* `render_pass = ManuallyDrop::new(encoder.begin_render_pass(..))`
ReopenPass(rs) ==
    [rs EXCEPT !.calls = Append(@, BeginRenderPass(ReopenLoadOp)),
               !.render_pass = TRUE]

RenderQuads(rs, i, layer, bounds) ==
    IF layer.quads # 0
    THEN [rs EXCEPT
            !.calls = Append(@, RenderCall("quad", i, rs.quad_layer,
                                           layer.quads, bounds)),
            !.quad_layer = @ + 1]
    ELSE rs

\* the meshes drawn without a pass begun again after them
RenderMeshesNoReopen(rs, i, layer) ==
    IF layer.meshes # 0
    THEN LET dropped == DropPass(rs)
         IN  [dropped EXCEPT
                !.calls = Append(@, RenderCall("mesh", i, rs.triangle_layer,
                                               layer.meshes, NoRect)),
                !.triangle_layer = @ + 1]
    ELSE rs

RenderMeshes(rs, i, layer) ==
    IF layer.meshes # 0
    THEN LET dropped == DropPass(rs)
             drawn == [dropped EXCEPT
                         !.calls = Append(@, RenderCall("mesh", i,
                                       rs.triangle_layer, layer.meshes, NoRect)),
                         !.triangle_layer = @ + 1]
         IN  ReopenPass(drawn)
    ELSE rs

RenderImages(rs, i, layer, bounds, feature) ==
    IF feature /\ layer.images # 0
    THEN [rs EXCEPT
            !.calls = Append(@, RenderCall("image", i, rs.image_layer, 0, bounds)),
            !.image_layer = @ + 1]
    ELSE rs

\* the text drawn with, and advancing, the counter of the quads
RenderTextQuadCounter(rs, i, layer, bounds) ==
    IF layer.text # 0
    THEN [rs EXCEPT
            !.calls = Append(@, RenderCall("text", i, rs.quad_layer, 0, bounds)),
            !.quad_layer = @ + 1]
    ELSE rs

RenderText(rs, i, layer, bounds) ==
    IF layer.text # 0
    THEN [rs EXCEPT
            !.calls = Append(@, RenderCall("text", i, rs.text_layer, 0, bounds)),
            !.text_layer = @ + 1]
    ELSE rs

RECURSIVE RenderCustomsNoCull(_, _, _, _, _)
\* the custom primitives drawn without the test of their viewports
RenderCustomsNoCull(rs, i, layer, j, scale) ==
    IF j > Len(layer.pipelines) THEN rs
    ELSE LET viewport == Snap(Scale(layer.pipelines[j].viewport, scale))
             next == [rs EXCEPT !.calls = Append(@,
                         RenderCall("custom", i, NoIndex, j, viewport))]
         IN  RenderCustomsNoCull(next, i, layer, j + 1, scale)

RECURSIVE RenderCustoms(_, _, _, _, _)
\* `for pipeline in &layer.pipelines` of render, from primitive j on
RenderCustoms(rs, i, layer, j, scale) ==
    IF j > Len(layer.pipelines) THEN rs
    ELSE LET viewport == Snap(Scale(layer.pipelines[j].viewport, scale))
             next == IF TooSmall(viewport) THEN rs
                     ELSE [rs EXCEPT !.calls = Append(@,
                              RenderCall("custom", i, NoIndex, j, viewport))]
         IN  RenderCustoms(next, i, layer, j + 1, scale)

RECURSIVE RenderCustomsOwnPass(_, _, _, _, _)
\* the shared pass ended and begun again around each custom primitive
RenderCustomsOwnPass(rs, i, layer, j, scale) ==
    IF j > Len(layer.pipelines) THEN rs
    ELSE LET viewport == Snap(Scale(layer.pipelines[j].viewport, scale))
             dropped == DropPass(rs)
             next == IF TooSmall(viewport) THEN dropped
                     ELSE [dropped EXCEPT !.calls = Append(@,
                              RenderCall("custom", i, NoIndex, j, viewport))]
         IN  RenderCustomsOwnPass(ReopenPass(next), i, layer, j + 1, scale)

\* the custom primitives drawn with a pass ended and begun per primitive
RenderPipelinesPassPerPrimitive(rs, i, layer, scale) ==
    RenderCustomsOwnPass(rs, i, layer, 1, scale)

\* the custom primitives drawn without ending the shared pass
RenderPipelinesInPass(rs, i, layer, scale) ==
    IF Len(layer.pipelines) # 0
    THEN ReopenPass(RenderCustoms(rs, i, layer, 1, scale))
    ELSE rs

RenderPipelines(rs, i, layer, scale) ==
    IF Len(layer.pipelines) # 0
    THEN ReopenPass(RenderCustoms(DropPass(rs), i, layer, 1, scale))
    ELSE rs

\* render with a skipped layer still advancing the layer counters
RenderLayerCountsSkipped(rs, i, layer, scale, feature) ==
    LET bounds == Snap(Scale(layer.bounds, scale))
    IN  IF TooSmall(bounds)
        THEN [rs EXCEPT
                !.quad_layer = IF layer.quads # 0 THEN @ + 1 ELSE @,
                !.triangle_layer = IF layer.meshes # 0 THEN @ + 1 ELSE @,
                !.image_layer = IF layer.images # 0 THEN @ + 1 ELSE @,
                !.text_layer = IF layer.text # 0 THEN @ + 1 ELSE @]
        ELSE LET q == RenderQuads(rs, i, layer, bounds)
                 m == RenderMeshes(q, i, layer)
                 g == RenderImages(m, i, layer, bounds, feature)
                 t == RenderText(g, i, layer, bounds)
             IN  RenderPipelines(t, i, layer, scale)

\* render with the text of a layer drawn before its meshes and images
RenderLayerTextEarly(rs, i, layer, scale, feature) ==
    LET bounds == Snap(Scale(layer.bounds, scale))
    IN  IF TooSmall(bounds) THEN rs
        ELSE LET q == RenderQuads(rs, i, layer, bounds)
                 t == RenderText(q, i, layer, bounds)
                 m == RenderMeshes(t, i, layer)
                 g == RenderImages(m, i, layer, bounds, feature)
             IN  RenderPipelines(g, i, layer, scale)

\* the body of `for layer in layers` of render
RenderLayer(rs, i, layer, scale, feature) ==
    LET bounds == Snap(Scale(layer.bounds, scale))
    IN  IF TooSmall(bounds) THEN rs
        ELSE LET q == RenderQuads(rs, i, layer, bounds)
                 m == RenderMeshes(q, i, layer)
                 g == RenderImages(m, i, layer, bounds, feature)
                 t == RenderText(g, i, layer, bounds)
             IN  RenderPipelines(t, i, layer, scale)

RECURSIVE RenderLayers(_, _, _, _, _)
\* `for layer in layers` of render, from position i on
RenderLayers(rs, i, ls, scale, feature) ==
    IF i > Len(ls) THEN rs
    ELSE RenderLayers(RenderLayer(rs, i, ls[i], scale, feature),
                      i + 1, ls, scale, feature)

\* the calls of one call of render
RenderCalls(ls, color, scale, feature) ==
    DropPass(RenderLayers(RenderStart(color), 1, ls, scale, feature)).calls

\* the end_frame block without the text pipeline
EndFrameCallsNoText(feature) ==
    <<EndFrameCall("quad"), EndFrameCall("mesh")>>
    \o (IF feature THEN <<EndFrameCall("image")>> ELSE <<>>)

\* the end_frame block of present
EndFrameCalls(feature) ==
    <<EndFrameCall("quad"), EndFrameCall("text"), EndFrameCall("mesh")>>
    \o (IF feature THEN <<EndFrameCall("image")>> ELSE <<>>)

----------------------------------------------------------------------------
(* The Backend as a state machine *)

\* the statements of present, in program order
PresentSteps == <<"idle", "prepare", "finish", "render", "end_frame", "done">>

\* present with render moved before the finish of the belt
StepAfterRenderEarly(step) ==
    LET steps == <<"idle", "prepare", "render", "finish", "end_frame", "done">>
    IN  steps[(CHOOSE k \in 1..Len(steps) : steps[k] = step) + 1]

\* present with the finish of the belt moved before prepare
StepAfterFinishEarly(step) ==
    LET steps == <<"idle", "finish", "prepare", "render", "end_frame", "done">>
    IN  steps[(CHOOSE k \in 1..Len(steps) : steps[k] = step) + 1]

\* the statement of present that follows `step`
StepAfter(step) ==
    PresentSteps[(CHOOSE k \in 1..Len(PresentSteps) : PresentSteps[k] = step) + 1]

\* the overlay layer put before the generated layers
WithOverlayFirst(ls, text) ==
    IF text # <<>> THEN <<Overlay(text)>> \o ls ELSE ls

\* `layers.push(Layer::overlay(..))` when the overlay text is not empty
WithOverlay(ls, text) ==
    IF text # <<>> THEN Append(ls, Overlay(text)) ELSE ls

\* Backend::new
Init ==
    /\ pc = "idle"
    /\ generated = <<>>
    /\ overlay_text = <<>>
    /\ layers = <<>>
    /\ clear_color = None
    /\ scale_factor \in ScaleFactors
    /\ staging_belt = BeltNew
    /\ pipeline_storage = {}
    /\ prepare_layer = CountersNew
    /\ last_call = "new"
    /\ log = <<>>

\* present is called: the layers are generated and the overlay is appended
PresentStart ==
    /\ pc = "idle"
    /\ staging_belt.closed <= MaxClosed
    /\ \E frame \in Frames, color \in ClearColors, scale \in ScaleFactors :
            /\ generated' = frame.generated
            /\ overlay_text' = frame.overlay_text
            /\ layers' = WithOverlay(frame.generated, frame.overlay_text)
            /\ clear_color' = color
            /\ scale_factor' = scale
    /\ log' = <<>>
    /\ last_call' = "present"
    /\ pc' = StepAfter("idle")
    /\ UNCHANGED <<staging_belt, pipeline_storage, prepare_layer>>

\* self.prepare(..)
Prepare ==
    /\ pc = "prepare"
    /\ LET calls == PrepareLayers(1, layers, scale_factor, ImageFeature)
       IN  /\ log' = log \o calls
           /\ staging_belt' = BeltAfter(staging_belt, calls)
           /\ pipeline_storage' = StorageAfter(pipeline_storage, calls)
           /\ prepare_layer' = CountersAfter(prepare_layer, calls)
    /\ pc' = StepAfter("prepare")
    /\ UNCHANGED <<generated, overlay_text, layers, clear_color, scale_factor,
                   last_call>>

\* finish followed by a recall inside present
FinishThenRecall ==
    /\ pc = "finish"
    /\ log' = Append(log, FinishCall)
    /\ staging_belt' = BeltRecall(BeltFinish(staging_belt))
    /\ pc' = StepAfter("finish")
    /\ UNCHANGED <<generated, overlay_text, layers, clear_color, scale_factor,
                   pipeline_storage, prepare_layer, last_call>>

\* finish waiting until the earlier frames have been recalled
FinishWaitsForRecall ==
    /\ pc = "finish"
    /\ staging_belt.closed = 0
    /\ log' = Append(log, FinishCall)
    /\ staging_belt' = BeltFinish(staging_belt)
    /\ pc' = StepAfter("finish")
    /\ UNCHANGED <<generated, overlay_text, layers, clear_color, scale_factor,
                   pipeline_storage, prepare_layer, last_call>>

\* self.staging_belt.finish()
Finish ==
    /\ pc = "finish"
    /\ log' = Append(log, FinishCall)
    /\ staging_belt' = BeltFinish(staging_belt)
    /\ pc' = StepAfter("finish")
    /\ UNCHANGED <<generated, overlay_text, layers, clear_color, scale_factor,
                   pipeline_storage, prepare_layer, last_call>>

\* self.render(..)
Render ==
    /\ pc = "render"
    /\ log' = log \o RenderCalls(layers, clear_color, scale_factor, ImageFeature)
    /\ pc' = StepAfter("render")
    /\ UNCHANGED <<generated, overlay_text, layers, clear_color, scale_factor,
                   staging_belt, pipeline_storage, prepare_layer, last_call>>

\* the end_frame calls
EndFrame ==
    /\ pc = "end_frame"
    /\ LET calls == EndFrameCalls(ImageFeature)
       IN  /\ log' = log \o calls
           /\ prepare_layer' = CountersEnded(prepare_layer, calls)
    /\ pc' = StepAfter("end_frame")
    /\ UNCHANGED <<generated, overlay_text, layers, clear_color, scale_factor,
                   staging_belt, pipeline_storage, last_call>>

\* present returning with a fresh pipeline storage
ReturnResetsStorage ==
    /\ pc = "done"
    /\ pc' = "idle"
    /\ generated' = <<>>
    /\ overlay_text' = <<>>
    /\ layers' = <<>>
    /\ clear_color' = None
    /\ log' = <<>>
    /\ pipeline_storage' = {}
    /\ UNCHANGED <<scale_factor, staging_belt, prepare_layer, last_call>>

\* present returns: its locals are dropped and the record of its calls ends
Return ==
    /\ pc = "done"
    /\ pc' = "idle"
    /\ generated' = <<>>
    /\ overlay_text' = <<>>
    /\ layers' = <<>>
    /\ clear_color' = None
    /\ log' = <<>>
    /\ UNCHANGED <<scale_factor, staging_belt, pipeline_storage, prepare_layer,
                   last_call>>

\* recall refusing to run when no finished frame is outstanding
RecallChecked ==
    /\ pc = "idle"
    /\ staging_belt.closed > 0
    /\ staging_belt' = BeltRecall(staging_belt)
    /\ last_call' = "recall"
    /\ UNCHANGED <<pc, generated, overlay_text, layers, clear_color,
                   scale_factor, pipeline_storage, prepare_layer, log>>

\* Backend::recall
Recall ==
    /\ pc = "idle"
    /\ staging_belt' = BeltRecall(staging_belt)
    /\ last_call' = "recall"
    /\ UNCHANGED <<pc, generated, overlay_text, layers, clear_color,
                   scale_factor, pipeline_storage, prepare_layer, log>>

Next ==
    PresentStart \/ Prepare \/ Finish \/ Render \/ EndFrame \/ Return \/ Recall

Spec == Init /\ [][Next]_vars

\* present is straight-line code over a finite layer sequence: once called,
\* each of its statements is executed; when present and recall are called is
\* up to the caller
SpecLive ==
    /\ Spec
    /\ WF_vars(Prepare)
    /\ WF_vars(Finish)
    /\ WF_vars(Render)
    /\ WF_vars(EndFrame)
    /\ WF_vars(Return)

----------------------------------------------------------------------------
(* Vocabulary of the properties *)

Calls == 1..Len(log)

IsPrepare(k) == log[k].op = "prepare"

IsRender(k) == log[k].op = "render"

IsFinish(k) == log[k].op = "finish"

IsBeginPass(k) == log[k].op = "begin_render_pass"

IsEndPass(k) == log[k].op = "end_render_pass"

IsEndFrame(k) == log[k].op = "end_frame"

\* a call of the render phase: a pass begun or ended, or a draw
IsRendering(k) == IsBeginPass(k) \/ IsRender(k) \/ IsEndPass(k)

\* a layer the Backend skips: its scaled, snapped bounds are under 1 x 1
IsCulled(l) ==
    LET b == Snap(Scale(l.bounds, scale_factor))
    IN  b.width < 1 \/ b.height < 1

\* the position of a kind in the order quad, mesh, image, text, custom
KindRank(kind) ==
    CASE kind = "quad" -> 1
      [] kind = "mesh" -> 2
      [] kind = "image" -> 3
      [] kind = "text" -> 4
      [] kind = "custom" -> 5

BuiltIn == {"quad", "mesh", "image", "text"}

----------------------------------------------------------------------------
(* C1: in a call of present every prepare call precedes the finish of the  *)
(* staging belt, every render pass and every draw comes after that finish, *)
(* and every end_frame comes after the last draw and after the last pass   *)
(* has been ended; once rendering has started the finish has happened.     *)
C1_PhaseOrder ==
    /\ \A j \in Calls, k \in Calls :
          /\ IsPrepare(j) /\ IsFinish(k) => j < k
          /\ IsRendering(j) /\ IsFinish(k) => k < j
          /\ IsRendering(j) /\ IsEndFrame(k) => j < k
          /\ IsPrepare(j) /\ IsRendering(k) => j < k
    /\ (\E j \in Calls : IsRendering(j) \/ IsEndFrame(j))
          => \E k \in Calls : IsFinish(k)
    /\ (\E k \in Calls : IsEndFrame(k))
          => /\ \E j \in Calls : IsEndPass(j)
             /\ Cardinality({j \in Calls : IsBeginPass(j)})
                  = Cardinality({j \in Calls : IsEndPass(j)})

\* a present call that prepared, drew and ended the frame
C1_Witness ==
    /\ pc = "done"
    /\ \E j \in Calls : IsPrepare(j)
    /\ \E j \in Calls : IsRender(j)
    /\ \E j \in Calls : IsEndFrame(j)

(* C2: a present call finishes the staging belt exactly once, also when    *)
(* nothing was prepared; the belt is handed only to prepare calls, all of  *)
(* them before the finish, so after the finish nothing carved is left      *)
(* unfinished.                                                             *)
C2_SingleFinish ==
    /\ Cardinality({k \in Calls : IsFinish(k)})
          = (IF pc \in {"render", "end_frame", "done"} THEN 1 ELSE 0)
    /\ \A j \in Calls :
          log[j].belt /\ ~IsFinish(j)
            => /\ IsPrepare(j)
               /\ \A k \in Calls : IsFinish(k) => j < k
    /\ pc # "finish" => staging_belt.active = 0

\* a present call whose prepare carved from the belt, after its finish
C2_Witness ==
    /\ pc = "done"
    /\ \E j \in Calls : IsPrepare(j) /\ log[j].belt
    /\ staging_belt.closed >= 1

(* C3: the draws of one layer are issued in the kind order quad, mesh,     *)
(* image, text, custom, and so are the prepare calls of one layer.         *)
C3_KindOrder ==
    \A j \in Calls, k \in Calls :
        /\ j < k
        /\ log[j].op \in {"prepare", "render"}
        /\ log[j].op = log[k].op
        /\ log[j].layer = log[k].layer
        => KindRank(log[j].kind) <= KindRank(log[k].kind)

\* a layer drawn with three kinds, a custom primitive among them
C3_Witness ==
    /\ pc = "done"
    /\ \E i \in 1..Len(layers) :
          /\ Cardinality({log[k].kind : k \in {n \in Calls :
                             IsRender(n) /\ log[n].layer = i}}) >= 3
          /\ \E k \in Calls : IsRender(k) /\ log[k].layer = i
                                /\ log[k].kind = "custom"

(* C4: prepare and render visit the layers in the order of the layer       *)
(* sequence: the prepare calls of an earlier layer precede those of a      *)
(* later layer, and so do the draws.                                       *)
C4_LayerOrder ==
    \A j \in Calls, k \in Calls :
        /\ log[j].op \in {"prepare", "render"}
        /\ log[j].op = log[k].op
        /\ log[j].layer < log[k].layer
        => j < k

\* three layers prepared and drawn
C4_Witness ==
    /\ pc = "done"
    /\ Cardinality({log[k].layer : k \in {n \in Calls : IsRender(n)}}) >= 3
    /\ Cardinality({log[k].layer : k \in {n \in Calls : IsPrepare(n)}}) >= 3

\* the calls of one present call on the layers ls
CallsOfPresent(ls) ==
    PrepareLayers(1, ls, scale_factor, ImageFeature) \o <<FinishCall>>
    \o RenderCalls(ls, clear_color, scale_factor, ImageFeature)
    \o EndFrameCalls(ImageFeature)

\* calls without the position of the layer, which is no argument of a call
Strip(calls) == [k \in 1..Len(calls) |-> [calls[k] EXCEPT !.layer = 0]]

\* the layers that are not skipped, in order
Unculled(ls) == SelectSeq(ls, LAMBDA l : ~IsCulled(l))

(* C5: a layer whose scaled and snapped bounds are under 1 x 1 gets no     *)
(* prepare call and no draw, and the calls of the present call, with the   *)
(* layer indices given to render, are those of a present call on the same  *)
(* layers without the skipped ones.                                        *)
C5_CulledLayersLeaveNoTrace ==
    /\ \A k \in Calls :
          log[k].op \in {"prepare", "render"} => ~IsCulled(layers[log[k].layer])
    /\ pc = "done" => Strip(log) = Strip(CallsOfPresent(Unculled(layers)))

\* a skipped layer holding quads comes before a drawn layer holding quads
C5_Witness ==
    /\ pc = "done"
    /\ \E i \in 1..Len(layers), j \in 1..Len(layers) :
          /\ i < j
          /\ IsCulled(layers[i]) /\ layers[i].quads # 0
          /\ ~IsCulled(layers[j])
          /\ \E k \in Calls : /\ IsRender(k) /\ log[k].kind = "quad"
                              /\ log[k].layer = j /\ log[k].index = 0

\* the number of shared passes open after call k
OpenPasses(k) ==
    Cardinality({j \in 1..k : IsBeginPass(j)})
    - Cardinality({j \in 1..k : IsEndPass(j)})

(* C6: at most one render pass is open at any time; quads, images and text *)
(* are drawn while the shared pass is open; the meshes and the custom      *)
(* primitives are drawn while no shared pass is open, and a pass is open   *)
(* again before any later quad, image or text draw.                        *)
C6_OnePassAtATime ==
    \A k \in Calls :
        /\ OpenPasses(k) \in {0, 1}
        /\ IsRender(k) /\ log[k].kind \in {"quad", "image", "text"}
              => OpenPasses(k) = 1
        /\ IsRender(k) /\ log[k].kind \in {"mesh", "custom"}
              => OpenPasses(k) = 0

\* a mesh draw and a custom draw, each followed by a draw in the shared pass
C6_Witness ==
    /\ pc = "done"
    /\ \E j \in Calls, k \in Calls :
          /\ j < k /\ IsRender(j) /\ log[j].kind = "mesh"
          /\ IsRender(k) /\ log[k].kind \in {"quad", "image", "text"}
    /\ \E j \in Calls, k \in Calls :
          /\ j < k /\ IsRender(j) /\ log[j].kind = "custom"
          /\ IsRender(k) /\ log[k].kind \in {"quad", "image", "text"}

\* the LoadOp of the pass begun by call k clears
Clears(k) == IsBeginPass(k) /\ log[k].load[1] = "Clear"

(* C7: the first pass of a frame clears to clear_color exactly when a      *)
(* clear color is given and loads otherwise; every later pass loads; so a  *)
(* frame clears at most once and never after a draw.                       *)
C7_ClearOnlyFirst ==
    /\ \A k \in Calls :
          IsBeginPass(k) =>
             IF \A j \in 1..(k - 1) : ~IsBeginPass(j)
             THEN log[k].load = (IF clear_color # None
                                 THEN <<"Clear", clear_color>> ELSE <<"Load">>)
             ELSE log[k].load = <<"Load">>
    /\ \A j \in Calls, k \in Calls : IsRender(j) /\ Clears(k) => k < j
    /\ Cardinality({k \in Calls : Clears(k)}) <= 1

\* a frame with a clear color that draws, then begins a second pass
C7_Witness ==
    /\ pc = "done"
    /\ clear_color # None
    /\ \E j \in Calls, k \in Calls :
          /\ IsRender(j) /\ j < k /\ IsBeginPass(k)
          /\ \E d \in Calls : k < d /\ IsRender(d)

QuadOnly(l) ==
    /\ l.quads # 0 /\ l.meshes = 0 /\ l.images = 0 /\ l.text = 0
    /\ l.pipelines = <<>>

MeshOnly(l) ==
    /\ l.quads = 0 /\ l.meshes # 0 /\ l.images = 0 /\ l.text = 0
    /\ l.pipelines = <<>>

\* the layers that are not skipped are a quad layer, a mesh layer, a quad layer
QuadMeshQuad ==
    LET u == Unculled(layers)
    IN  Len(u) = 3 /\ QuadOnly(u[1]) /\ MeshOnly(u[2]) /\ QuadOnly(u[3])

\* the calls of the render phase, as operation, kind and layer index
RenderPhase ==
    LET r == SelectSeq(log, LAMBDA c :
                 c.op \in {"begin_render_pass", "render", "end_render_pass"})
    IN  [k \in 1..Len(r) |-> <<r[k].op, r[k].kind, r[k].index>>]

(* C8: a frame whose drawn layers are a quad layer, a mesh layer and a     *)
(* quad layer renders in three segments: the first shared pass with the    *)
(* first quad draw, the mesh pipeline's draw outside any shared pass, and  *)
(* a shared pass begun with Load with the second quad draw.                *)
C8_QuadMeshQuadSegments ==
    pc = "done" /\ QuadMeshQuad =>
        /\ RenderPhase = << <<"begin_render_pass", "pass", NoIndex>>,
                            <<"render", "quad", 0>>,
                            <<"end_render_pass", "pass", NoIndex>>,
                            <<"render", "mesh", 0>>,
                            <<"begin_render_pass", "pass", NoIndex>>,
                            <<"render", "quad", 1>>,
                            <<"end_render_pass", "pass", NoIndex>> >>
        /\ \A k \in Calls :
              IsBeginPass(k) /\ (\E j \in 1..(k - 1) : IsRender(j))
                 => log[k].load = <<"Load">>

\* such a frame, rendered
C8_Witness == pc = "done" /\ QuadMeshQuad

(* C9: a present call calls end_frame exactly once on each of the quad,    *)
(* text, triangle and image pipelines, after all rendering, also on a      *)
(* pipeline that drew nothing in the frame.                                *)
C9_EndFrameOnceEach ==
    /\ \A kind \in BuiltIn :
          Cardinality({k \in Calls : IsEndFrame(k) /\ log[k].kind = kind})
             = (IF pc = "done" THEN 1 ELSE 0)
    /\ \A k \in Calls :
          IsEndFrame(k) => /\ log[k].kind \in BuiltIn
                           /\ \A j \in Calls : IsRendering(j) => j < k
                           /\ OpenPasses(k) = 0

\* a frame that drew quads and no text, ended
C9_Witness ==
    /\ pc = "done"
    /\ \E k \in Calls : IsRender(k) /\ log[k].kind = "quad"
    /\ \A k \in Calls : IsRender(k) => log[k].kind # "text"
    /\ \E k \in Calls : IsEndFrame(k) /\ log[k].kind = "text"

(* C10: the layer index given to the render of a built-in kind is the      *)
(* number of earlier draws of that kind in the same present call: 0, 1,    *)
(* 2, .. per kind, whatever the other kinds draw and whatever earlier      *)
(* present calls drew.                                                     *)
C10_LayerIndexPerKind ==
    \A k \in Calls :
        IsRender(k) /\ log[k].kind \in BuiltIn =>
            log[k].index = Cardinality({j \in 1..(k - 1) :
                              IsRender(j) /\ log[j].kind = log[k].kind})

\* a present call after an earlier one that drew (both left a closed chunk),
\* drawing two layers of one kind and a layer of another kind
C10_Witness ==
    /\ pc = "done"
    /\ staging_belt.closed >= 2
    /\ \E j \in Calls, k \in Calls :
          /\ IsRender(j) /\ IsRender(k)
          /\ log[k].kind \in BuiltIn /\ log[k].index = 1
          /\ log[j].kind \in BuiltIn /\ log[j].kind # log[k].kind
          /\ j < k

\* a present call without primitives, overlay text and clear color
EmptyFrame ==
    /\ pc # "idle"
    /\ overlay_text = <<>>
    /\ clear_color = None
    /\ \A i \in 1..Len(generated) : Items(generated[i]) = 0

\* the calls of such a present call
EmptyFrameCalls ==
    <<FinishCall, BeginRenderPass(<<"Load">>), EndRenderPass,
      EndFrameCall("quad"), EndFrameCall("text"), EndFrameCall("mesh"),
      EndFrameCall("image")>>

(* C11: a present call without primitives, overlay text and clear color    *)
(* makes no prepare call and no draw, carves nothing from the belt, and    *)
(* after end_frame every pipeline's layer counter is zero; its calls are   *)
(* the same every time, whatever was presented before.                     *)
C11_EmptyFrameIsNoOp ==
    EmptyFrame =>
        /\ \A k \in Calls : ~IsPrepare(k) /\ ~IsRender(k)
        /\ staging_belt.active = 0
        /\ pc = "done" =>
              /\ log = EmptyFrameCalls
              /\ \A kind \in PipelineKinds : prepare_layer[kind] = 0

\* such a present call on a layer that is not skipped, made after a present
\* call that drew
C11_Witness ==
    /\ pc = "done"
    /\ EmptyFrame
    /\ \E i \in 1..Len(layers) : ~IsCulled(layers[i])
    /\ staging_belt.closed >= 1

\* the last call of the log that satisfies Is
LastCall(Is(_)) ==
    CHOOSE k \in Calls : Is(k) /\ \A j \in Calls : Is(j) => j <= k

(* C12: with overlay text, the layers of the frame are the generated       *)
(* layers followed by exactly one overlay layer, and the last prepare call *)
(* and the last render call of the frame are the text calls of that last   *)
(* layer; without overlay text the layers are the generated layers.        *)
C12_OverlayLast ==
    pc # "idle" =>
        IF overlay_text # <<>>
        THEN /\ Len(layers) = Len(generated) + 1
             /\ SubSeq(layers, 1, Len(generated)) = generated
             /\ layers[Len(layers)] = Overlay(overlay_text)
             /\ pc \notin {"idle", "prepare"} =>
                   /\ \E k \in Calls : IsPrepare(k)
                   /\ log[LastCall(IsPrepare)].layer = Len(layers)
                   /\ log[LastCall(IsPrepare)].kind = "text"
             /\ pc \in {"end_frame", "done"} =>
                   /\ \E k \in Calls : IsRender(k)
                   /\ log[LastCall(IsRender)].layer = Len(layers)
                   /\ log[LastCall(IsRender)].kind = "text"
        ELSE layers = generated

\* a frame with overlay text over a generated layer that draws text itself
C12_Witness ==
    /\ pc = "done"
    /\ overlay_text # <<>>
    /\ \E i \in 1..Len(generated) :
           ~IsCulled(generated[i]) /\ generated[i].text # 0

\* the calls of render in the log
RenderLog ==
    SelectSeq(log, LAMBDA c :
        c.op \in {"begin_render_pass", "render", "end_render_pass"})

\* the frame draws one layer, which holds a single quad and nothing else
SingleQuadFrame ==
    /\ Len(Unculled(layers)) = 1
    /\ QuadOnly(Unculled(layers)[1])
    /\ Unculled(layers)[1].quads = 1

(* C13: a frame that draws one layer holding a single quad, presented with *)
(* a clear color, has one render pass, which clears to that color and      *)
(* holds one quad render call with layer index 0 and no other draw.        *)
C13_SingleQuadOnePass ==
    (pc \in {"end_frame", "done"} /\ SingleQuadFrame /\ clear_color # None) =>
        /\ Len(RenderLog) = 3
        /\ RenderLog[1] = BeginRenderPass(<<"Clear", clear_color>>)
        /\ RenderLog[2].op = "render"
        /\ RenderLog[2].kind = "quad"
        /\ RenderLog[2].index = 0
        /\ RenderLog[2].items = 1
        /\ RenderLog[3] = EndRenderPass

\* such a frame after its render, the quad layer following a skipped layer
C13_Witness ==
    /\ pc = "done"
    /\ SingleQuadFrame
    /\ clear_color # None
    /\ Len(layers) >= 2
    /\ IsCulled(layers[1])

\* a step that makes finished regions of the belt reusable
RegionsFreed ==
    \/ staging_belt'.free > staging_belt.free
    \/ staging_belt'.closed < staging_belt.closed

\* a step of Backend::recall
RecallStep == pc = "idle" /\ pc' = "idle" /\ last_call' = "recall"

(* C14: no step of present makes finished regions reusable: they stay      *)
(* closed, also after present has returned, until Backend::recall, and a   *)
(* recall makes all the closed regions reusable.                           *)
C14_OnlyRecallFrees ==
    [][/\ RegionsFreed => RecallStep
       /\ RecallStep =>
             /\ staging_belt'.closed = 0
             /\ staging_belt'.free = staging_belt.free + staging_belt.closed
             /\ staging_belt'.active = staging_belt.active]_vars

\* a recall has returned the regions of two frames that had stayed closed
C14_Witness ==
    /\ pc = "idle"
    /\ last_call = "recall"
    /\ staging_belt.closed = 0
    /\ staging_belt.free >= 2

\* the next statement of a present call under way
PresentStep == Prepare \/ Finish \/ Render \/ EndFrame \/ Return

\* the log ends with the end_frame calls
EndFrameDone ==
    /\ Len(log) >= Len(EndFrameCalls(ImageFeature))
    /\ SubSeq(log, Len(log) - Len(EndFrameCalls(ImageFeature)) + 1, Len(log))
         = EndFrameCalls(ImageFeature)

(* C15: a present call always reaches its end with the end_frame calls     *)
(* made and returns; its next statement can always be executed, whatever   *)
(* the state of the belt, so it never waits for a recall.                  *)
C15_PresentCompletes ==
    /\ [](pc # "idle" => ENABLED PresentStep)
    /\ (pc = "prepare") ~> (pc = "done" /\ EndFrameDone)
    /\ (pc = "done") ~> (pc = "idle")

\* a present call that carved from the belt has completed while the regions
\* of an earlier frame were not recalled, in a newly allocated chunk
C15_Witness ==
    /\ pc = "done"
    /\ EndFrameDone
    /\ staging_belt.closed >= 2
    /\ staging_belt.free = 0

\* the step made prepare calls of custom primitives
CustomPrepared ==
    /\ pc = "prepare"
    /\ \E k \in 1..Len(log') : log'[k].op = "prepare" /\ log'[k].kind = "custom"

(* C16: the pipeline storage made by Backend::new is never reset or        *)
(* replaced: every step keeps what it holds, and the only step that        *)
(* changes it is a prepare phase that prepares custom primitives; finish,  *)
(* render, end_frame, the return of present and recall leave it as it is.  *)
C16_StoragePersists ==
    [][/\ pipeline_storage \subseteq pipeline_storage'
       /\ pipeline_storage' # pipeline_storage => CustomPrepared]_vars

\* a frame without custom primitives has been rendered with the storage
\* holding what an earlier frame stored
C16_Witness ==
    /\ pc = "done"
    /\ pipeline_storage # {}
    /\ \A k \in Calls : log[k].kind # "custom"

(* C17: Backend::recall has no precondition: whenever the Backend is not   *)
(* inside present, whatever was called last (new, present or recall) and   *)
(* whatever the belt holds, recall can be called and runs.                 *)
C17_RecallAlwaysAccepted ==
    pc = "idle" => ENABLED Recall

\* recall has run on a belt with nothing finished, and can be called again
C17_Witness ==
    /\ pc = "idle"
    /\ last_call = "recall"
    /\ staging_belt = BeltNew
    /\ ENABLED Recall

\* the number of items of a built-in kind in a layer
Bucket(l, kind) ==
    CASE kind = "quad" -> l.quads
      [] kind = "mesh" -> l.meshes
      [] kind = "image" -> l.images
      [] kind = "text" -> l.text

\* the calls `op` of a kind for the layer at position i
CallsFor(op, kind, i) ==
    {k \in Calls : log[k].op = op /\ log[k].kind = kind /\ log[k].layer = i}

\* the prepare calls of a kind, in the order they were made
PreparesOf(kind) ==
    SelectSeq(log, LAMBDA c : c.op = "prepare" /\ c.kind = kind)

(* C18: for each built-in kind, a layer gets one prepare call and one      *)
(* render call of that kind when it is not skipped and holds items of that *)
(* kind, and neither otherwise; the render call with layer index n is for  *)
(* the layer of the (n+1)-th prepare call of that kind.                    *)
C18_PrepareRenderSameLayers ==
    pc \in {"end_frame", "done"} =>
        \A kind \in BuiltIn :
            /\ \A i \in 1..Len(layers) :
                  LET selected == ~IsCulled(layers[i])
                                  /\ Bucket(layers[i], kind) # 0
                      n == IF selected THEN 1 ELSE 0
                  IN  /\ Cardinality(CallsFor("prepare", kind, i)) = n
                      /\ Cardinality(CallsFor("render", kind, i)) = n
            /\ \A k \in Calls :
                  (IsRender(k) /\ log[k].kind = kind) =>
                      /\ log[k].index + 1 \in 1..Len(PreparesOf(kind))
                      /\ PreparesOf(kind)[log[k].index + 1].layer = log[k].layer

\* the third layer is drawn with layer index 1: one of the layers before it
\* was skipped or held nothing of the kind
C18_Witness ==
    /\ pc = "done"
    /\ \E k \in Calls :
           /\ IsRender(k)
           /\ log[k].kind \in BuiltIn
           /\ log[k].layer = 3
           /\ log[k].index = 1
           /\ \E i \in 1..2 : IsCulled(layers[i])
                              /\ Bucket(layers[i], log[k].kind) # 0

\* the layers that are drawn and satisfy Has
DrawnLayers(Has(_)) ==
    {i \in 1..Len(layers) : ~IsCulled(layers[i]) /\ Has(layers[i])}

HasMeshes(l) == l.meshes # 0

HasPipelines(l) == Len(l.pipelines) # 0

(* C19: the passes begun in a present call are the first one, one per      *)
(* drawn layer with meshes and one per drawn layer with custom primitives, *)
(* however many meshes or custom primitives the layer holds; as many       *)
(* passes are ended as are begun, and none is open at the end of render.   *)
C19_PassCount ==
    pc \in {"end_frame", "done"} =>
        /\ Cardinality({k \in Calls : IsBeginPass(k)})
             = 1 + Cardinality(DrawnLayers(HasMeshes))
                 + Cardinality(DrawnLayers(HasPipelines))
        /\ Cardinality({k \in Calls : IsEndPass(k)})
             = Cardinality({k \in Calls : IsBeginPass(k)})
        /\ OpenPasses(Len(log)) = 0

\* a frame that draws a layer with two custom primitives and a layer with
\* meshes
C19_Witness ==
    /\ pc = "done"
    /\ \E i \in DrawnLayers(HasPipelines) : Len(layers[i].pipelines) >= 2
    /\ DrawnLayers(HasMeshes) # {}
    /\ Cardinality({k \in Calls : IsBeginPass(k)}) = 3

\* the calls `op` for the custom primitive j of the layer at position i
CustomCalls(op, i, j) ==
    {k \in Calls : /\ log[k].op = op /\ log[k].kind = "custom"
                   /\ log[k].layer = i /\ log[k].items = j}

\* the viewport of a custom primitive, scaled and snapped, is under 1 x 1
ViewportCulled(primitive) ==
    TooSmall(Snap(Scale(primitive.viewport, scale_factor)))

(* C20: every custom primitive of every layer that is not skipped gets one *)
(* prepare call, whatever its viewport; it gets one render call when its   *)
(* viewport, scaled and snapped, is at least 1 x 1 and none otherwise; a   *)
(* render call of a custom primitive comes after its prepare call.         *)
C20_CustomCulledInRenderOnly ==
    pc \in {"end_frame", "done"} =>
        /\ \A i \in 1..Len(layers) : \A j \in 1..Len(layers[i].pipelines) :
              /\ Cardinality(CustomCalls("prepare", i, j))
                   = IF IsCulled(layers[i]) THEN 0 ELSE 1
              /\ Cardinality(CustomCalls("render", i, j))
                   = IF IsCulled(layers[i])
                        \/ ViewportCulled(layers[i].pipelines[j])
                     THEN 0 ELSE 1
        /\ \A k \in Calls :
              (IsRender(k) /\ log[k].kind = "custom") =>
                  \E p \in CustomCalls("prepare", log[k].layer, log[k].items) :
                      p < k

\* a drawn layer holds a custom primitive that was prepared and not drawn
\* and one that was prepared and drawn
C20_Witness ==
    /\ pc = "done"
    /\ \E i \in 1..Len(layers) : \E j, m \in 1..Len(layers[i].pipelines) :
           /\ ~IsCulled(layers[i])
           /\ ViewportCulled(layers[i].pipelines[j])
           /\ CustomCalls("prepare", i, j) # {}
           /\ CustomCalls("render", i, j) = {}
           /\ CustomCalls("render", i, m) # {}

====
